---- MODULE Spec2Model ----
(***************************************************************************)
(* Model of frontend/deploy.py: deploy_to_netlify() and the __main__       *)
(* block.  The parent script is a sequential program (pc); the spawned     *)
(* deploy tool is an environment process that may emit output, read or     *)
(* close its stdin, close its output and exit at any moment.               *)
(*                                                                         *)
(* Text is a sequence of one-character strings.  Fixed literals that the   *)
(* script prints itself are kept as one token.                             *)
(***************************************************************************)
EXTENDS Integers, Sequences, FiniteSets, TLC

VARIABLES
    pc,           \* position of the script
    console,      \* what the script printed, one record per print() call
    i,            \* index of the `for inp in inputs` loop
    written,      \* texts delivered to the child's stdin pipe, in order
    rawPos,       \* bytes of the child's output pulled out of the pipe
    linePos,      \* bytes of the child's output handed out as lines
    returncode,   \* process.returncode: <<>> is None, <<c>> after wait()
    result,       \* value returned by deploy_to_netlify: <<>> or <<b>>
    programExit,  \* exit status of the script: <<>> while running
    exc,          \* the exception being handled, "" if none
    trace,        \* the script's operations on the child, in order
    childStatus,  \* "none" (never spawned), "running", "exited"
    childCode,    \* exit code of the child once exited
    stdinOpen,    \* the child holds the read end of its stdin pipe
    stdoutOpen,   \* the child holds the write end of its stdout/stderr pipe
    stdinRead,    \* number of inputs the child has consumed
    emitted       \* the writes the child made to stdout/stderr (sample ids)

vars == <<pc, console, i, written, rawPos, linePos, returncode, result,
          programExit, exc, trace, childStatus, childCode, stdinOpen,
          stdoutOpen, stdinRead, emitted>>

parentVars == <<pc, console, i, written, rawPos, linePos, returncode, result,
                programExit, exc, trace>>

childVars == <<childStatus, childCode, stdinOpen, stdoutOpen, stdinRead,
               emitted>>

----------------------------------------------------------------------------
(* Bounds *)

MaxWrites == 2          \* writes the child makes to its output
MaxExitCode == 2        \* the child exits with a code in 0..MaxExitCode

----------------------------------------------------------------------------
(* Characters and literals *)

LF == "\n"
CR == "\r"
TAB == "\t"
BadByte == "0xFF"       \* a byte that is not valid in the locale encoding

Whitespace == {" ", TAB, LF, CR}

UpperAlpha == <<"A","B","C","D","E","F","G","H","I","J","K","L","M",
                "N","O","P","Q","R","S","T","U","V","W","X","Y","Z">>
LowerAlpha == <<"a","b","c","d","e","f","g","h","i","j","k","l","m",
                "n","o","p","q","r","s","t","u","v","w","x","y","z">>

\* the two needles of line 44
UrlMarker == <<"h","t","t","p","s",":","/","/">>
Provider == <<"n","e","t","l","i","f","y">>

\* inputs (lines 21-24): two empty strings
inputs == << <<>>, <<>> >>

\* What the deploy tool may write in one write() call.
Samples == <<
    \* 1: "https://a.netlify.app\n"
    <<"h","t","t","p","s",":","/","/","a",".","n","e","t","l","i","f","y",
      ".","a","p","p",LF>>,
    \* 2: "  Live: HTTPS://NetLify \r\n"
    <<" "," ","L","i","v","e",":"," ","H","T","T","P","S",":","/","/",
      "N","e","t","L","i","f","y"," ",CR,LF>>,
    \* 3: "http://netlify\n"  (no "https://")
    <<"h","t","t","p",":","/","/","n","e","t","l","i","f","y",LF>>,
    \* 4: "https://a.b\n"     (no "netlify")
    <<"h","t","t","p","s",":","/","/","a",".","b",LF>>,
    \* 5: "ok"                (no line terminator)
    <<"o","k">>,
    \* 6: "-\r"               (spinner frame, bare carriage return)
    <<"-",CR>>,
    \* 7: an undecodable byte
    <<BadByte,LF>>
  >>

SampleIds == 1..Len(Samples)

ExitCodes == {-9} \cup (0..MaxExitCode)

----------------------------------------------------------------------------
(* Pure functions *)

\* str.lower() on one character
LowerChar(c) ==
    IF \E k \in 1..Len(UpperAlpha) : UpperAlpha[k] = c
    THEN LowerAlpha[CHOOSE k \in 1..Len(UpperAlpha) : UpperAlpha[k] = c]
    ELSE c

\* a case-sensitive comparison: lower() left out
LowerIdentity(s) == s

\* str.lower()
Lower(s) == [k \in 1..Len(s) |-> LowerChar(s[k])]

\* `sub in s`
Contains(sub, s) ==
    \E p \in 0..(Len(s) - Len(sub)) :
        \A k \in 1..Len(sub) : s[p + k] = sub[k]

\* the condition of line 44
MatchesUrl(line) ==
    Contains(UrlMarker, Lower(line)) /\ Contains(Provider, Lower(line))

RECURSIVE LStrip(_)
LStrip(s) ==
    IF s # <<>> /\ Head(s) \in Whitespace THEN LStrip(Tail(s)) ELSE s

RECURSIVE RStrip(_)
RStrip(s) ==
    IF s # <<>> /\ s[Len(s)] \in Whitespace
    THEN RStrip(SubSeq(s, 1, Len(s) - 1))
    ELSE s

\* str.strip()
Strip(s) == RStrip(LStrip(s))

\* the bytes of a sequence of child writes
RECURSIVE Bytes(_)
Bytes(ws) ==
    IF ws = <<>> THEN <<>> ELSE Samples[Head(ws)] \o Bytes(Tail(ws))

----------------------------------------------------------------------------
(* The text stream process.stdout (text=True: strict decoding, universal   *)
(* newlines)                                                               *)

\* index of the first CR or LF of buf, 0 if there is none
FirstTerm(buf) ==
    IF \E p \in 1..Len(buf) : buf[p] \in {CR, LF}
    THEN CHOOSE p \in 1..Len(buf) :
            /\ buf[p] \in {CR, LF}
            /\ \A q \in 1..(p - 1) : buf[q] \notin {CR, LF}
    ELSE 0

\* CR LF taken as two line ends
LineEndSplitCRLF(buf, eof) ==
    LET p == FirstTerm(buf) IN
    IF p = 0 THEN (IF eof THEN Len(buf) ELSE 0) ELSE p

\* number of bytes of buf that make up its first line, 0 while the line is
\* not complete.  A CR at the end of buf is held back until the next byte
\* shows whether it starts a CR LF pair; at end of file the rest is a line.
LineEnd(buf, eof) ==
    LET p == FirstTerm(buf) IN
    IF p = 0 THEN (IF eof THEN Len(buf) ELSE 0)
    ELSE IF buf[p] = LF THEN p
    ELSE IF p < Len(buf) THEN (IF buf[p + 1] = LF THEN p + 1 ELSE p)
    ELSE IF eof THEN p ELSE 0

\* the line handed to the loop: CR LF and CR are translated to LF
LineText(buf, end) ==
    LET p == FirstTerm(buf) IN
    IF p = 0 THEN SubSeq(buf, 1, end)
    ELSE SubSeq(buf, 1, p - 1) \o <<LF>>

\* everything the child has written so far
Output == Bytes(emitted)

\* decoded text not yet handed out as a line
Decoded == SubSeq(Output, linePos + 1, rawPos)

\* bytes waiting in the pipe
Pending == SubSeq(Output, rawPos + 1, Len(Output))

\* the pipe is drained and no writer is left
AtEOF == ~stdoutOpen /\ rawPos = Len(Output)

----------------------------------------------------------------------------
(* print() calls *)

Echo(line) == [kind |-> "echo", text |-> line]

Found(line) ==
    [kind |-> "found",
     text |-> <<LF, "(U+2705) Found URL: ">> \o Strip(line) \o <<LF>>]

ErrorLine(e) == [kind |-> "error", text |-> <<"Error: ", e, LF>>]

Banner == [kind |-> "banner", text |-> <<"Deploying to Netlify...", LF>>]

\* lines 43-45: the prints of one loop iteration
Prints(line) ==
    IF MatchesUrl(line) THEN <<Echo(line), Found(line)>> ELSE <<Echo(line)>>

SpawnErrors == {"[Errno 2] No such file or directory: 'npx'",
                "[Errno 13] Permission denied: 'npx'"}
BrokenPipe == "[Errno 32] Broken pipe"
DecodeError == "codec can't decode byte 0xff"

----------------------------------------------------------------------------
(* The script *)

Init ==
    /\ pc = "print"
    /\ console = <<>>
    /\ i = 1
    /\ written = <<>>
    /\ rawPos = 0
    /\ linePos = 0
    /\ returncode = <<>>
    /\ result = <<>>
    /\ programExit = <<>>
    /\ exc = ""
    /\ trace = <<>>
    /\ childStatus = "none"
    /\ childCode = 0
    /\ stdinOpen = FALSE
    /\ stdoutOpen = FALSE
    /\ stdinRead = 0
    /\ emitted = <<>>

\* line 8
PrintBanner ==
    /\ pc = "print"
    /\ console' = Append(console, Banner)
    /\ pc' = "chdir"
    /\ UNCHANGED <<i, written, rawPos, linePos, returncode, result,
                   programExit, exc, trace>>
    /\ UNCHANGED childVars

ChdirError == "[Errno 2] No such file or directory"

\* os.chdir moved inside the try block
ChangeDirGuarded ==
    /\ pc = "chdir"
    /\ \E ok \in BOOLEAN :
         IF ok
         THEN /\ pc' = "popen"
              /\ UNCHANGED exc
         ELSE /\ pc' = "except"
              /\ exc' = ChdirError
    /\ UNCHANGED <<console, i, written, rawPos, linePos, returncode, result,
                   programExit, trace>>
    /\ UNCHANGED childVars

\* line 11: os.chdir outside the try block.  When the directory does not
\* exist the exception leaves deploy_to_netlify and the interpreter ends
\* with a traceback and status 1.
ChangeDir ==
    /\ pc = "chdir"
    /\ \E ok \in BOOLEAN :
         IF ok
         THEN /\ pc' = "popen"
              /\ UNCHANGED <<programExit, exc>>
         ELSE /\ pc' = "crashed"
              /\ exc' = ChdirError
              /\ programExit' = <<1>>
    /\ UNCHANGED <<console, i, written, rawPos, linePos, returncode, result,
                   trace>>
    /\ UNCHANGED childVars

\* subprocess.Popen moved out of the try block
SpawnProcessUnguarded ==
    /\ pc = "popen"
    /\ \/ /\ childStatus' = "running"
          /\ stdinOpen' = TRUE
          /\ stdoutOpen' = TRUE
          /\ trace' = Append(trace, "spawn")
          /\ i' = 1
          /\ pc' = "write"
          /\ UNCHANGED <<exc, programExit>>
       \/ /\ \E e \in SpawnErrors : exc' = e
          /\ pc' = "crashed"
          /\ programExit' = <<1>>
          /\ UNCHANGED <<childStatus, stdinOpen, stdoutOpen, trace, i>>
    /\ UNCHANGED <<console, written, rawPos, linePos, returncode, result,
                   childCode, stdinRead, emitted>>

\* lines 27-34: subprocess.Popen
SpawnProcess ==
    /\ pc = "popen"
    /\ \/ /\ childStatus' = "running"
          /\ stdinOpen' = TRUE
          /\ stdoutOpen' = TRUE
          /\ trace' = Append(trace, "spawn")
          /\ i' = 1
          /\ pc' = "write"
          /\ UNCHANGED exc
       \/ /\ \E e \in SpawnErrors : exc' = e
          /\ pc' = "except"
          /\ UNCHANGED <<childStatus, stdinOpen, stdoutOpen, trace, i>>
    /\ UNCHANGED <<console, written, rawPos, linePos, returncode, result,
                   programExit, childCode, stdinRead, emitted>>

\* line 38: process.stdin.write(inp + '\n').  The stream is line buffered
\* (bufsize=1), so the text goes to the pipe in this call; with no reader
\* left the write raises BrokenPipeError.
WriteInput ==
    /\ pc = "write"
    /\ IF stdinOpen
       THEN /\ written' = Append(written, inputs[i] \o <<LF>>)
            /\ trace' = Append(trace, "write")
            /\ pc' = "flush"
            /\ UNCHANGED exc
       ELSE /\ exc' = BrokenPipe
            /\ pc' = "except"
            /\ UNCHANGED <<written, trace>>
    /\ UNCHANGED <<console, i, rawPos, linePos, returncode, result,
                   programExit>>
    /\ UNCHANGED childVars

\* the input loop left after the first input
FlushInputOnce ==
    /\ pc = "flush"
    /\ trace' = Append(trace, "flush")
    /\ pc' = "read"
    /\ UNCHANGED <<console, i, written, rawPos, linePos, returncode, result,
                   programExit, exc>>
    /\ UNCHANGED childVars

\* line 39: process.stdin.flush(), nothing is left to flush; line 37: next
\* input or leave the loop
FlushInput ==
    /\ pc = "flush"
    /\ trace' = Append(trace, "flush")
    /\ IF i < Len(inputs)
       THEN /\ i' = i + 1
            /\ pc' = "write"
       ELSE /\ pc' = "read"
            /\ UNCHANGED i
    /\ UNCHANGED <<console, written, rawPos, linePos, returncode, result,
                   programExit, exc>>
    /\ UNCHANGED childVars

\* line 42: the stream has no complete line and pulls what is in the pipe;
\* an undecodable byte raises UnicodeDecodeError
ReadChunk ==
    /\ pc = "read"
    /\ LineEnd(Decoded, AtEOF) = 0
    /\ Pending # <<>>
    /\ rawPos' = Len(Output)
    /\ trace' = Append(trace, "read")
    /\ IF \E k \in 1..Len(Pending) : Pending[k] = BadByte
       THEN /\ exc' = DecodeError
            /\ pc' = "except"
       ELSE UNCHANGED <<pc, exc>>
    /\ UNCHANGED <<console, i, written, linePos, returncode, result,
                   programExit>>
    /\ UNCHANGED childVars

\* the loop left as soon as a URL is found
YieldLineBreak ==
    /\ pc = "read"
    /\ LineEnd(Decoded, AtEOF) > 0
    /\ LET end == LineEnd(Decoded, AtEOF)
           line == LineText(Decoded, end)
       IN /\ console' = console \o Prints(line)
          /\ linePos' = linePos + end
          /\ pc' = IF MatchesUrl(line) THEN "wait" ELSE pc
    /\ trace' = Append(trace, "line")
    /\ UNCHANGED <<i, written, rawPos, returncode, result, programExit, exc>>
    /\ UNCHANGED childVars

\* lines 42-45: one iteration of `for line in process.stdout`
YieldLine ==
    /\ pc = "read"
    /\ LineEnd(Decoded, AtEOF) > 0
    /\ LET end == LineEnd(Decoded, AtEOF)
           line == LineText(Decoded, end)
       IN /\ console' = console \o Prints(line)
          /\ linePos' = linePos + end
    /\ trace' = Append(trace, "line")
    /\ UNCHANGED <<pc, i, written, rawPos, returncode, result, programExit,
                   exc>>
    /\ UNCHANGED childVars

\* the loop left when the pipe is momentarily empty
EndOfOutputEager ==
    /\ pc = "read"
    /\ Pending = <<>>
    /\ Decoded = <<>>
    /\ trace' = Append(trace, "eof")
    /\ pc' = "wait"
    /\ UNCHANGED <<console, i, written, rawPos, linePos, returncode, result,
                   programExit, exc>>
    /\ UNCHANGED childVars

\* line 42: end of file ends the loop
EndOfOutput ==
    /\ pc = "read"
    /\ AtEOF
    /\ Decoded = <<>>
    /\ trace' = Append(trace, "eof")
    /\ pc' = "wait"
    /\ UNCHANGED <<console, i, written, rawPos, linePos, returncode, result,
                   programExit, exc>>
    /\ UNCHANGED childVars

\* line 47: process.wait() blocks until the child has terminated
WaitChild ==
    /\ pc = "wait"
    /\ childStatus = "exited"
    /\ returncode' = <<childCode>>
    /\ trace' = Append(trace, "wait")
    /\ pc' = "return"
    /\ UNCHANGED <<console, i, written, rawPos, linePos, result, programExit,
                   exc>>
    /\ UNCHANGED childVars

\* the comparison inverted
ReturnResultInverted ==
    /\ pc = "return"
    /\ result' = <<returncode[1] # 0>>
    /\ trace' = Append(trace, "returncode")
    /\ pc' = "exit"
    /\ UNCHANGED <<console, i, written, rawPos, linePos, returncode,
                   programExit, exc>>
    /\ UNCHANGED childVars

\* only exit code 1 taken as failure
ReturnResultOnlyOne ==
    /\ pc = "return"
    /\ result' = <<returncode[1] # 1>>
    /\ trace' = Append(trace, "returncode")
    /\ pc' = "exit"
    /\ UNCHANGED <<console, i, written, rawPos, linePos, returncode,
                   programExit, exc>>
    /\ UNCHANGED childVars

\* line 48
ReturnResult ==
    /\ pc = "return"
    /\ result' = <<returncode[1] = 0>>
    /\ trace' = Append(trace, "returncode")
    /\ pc' = "exit"
    /\ UNCHANGED <<console, i, written, rawPos, linePos, returncode,
                   programExit, exc>>
    /\ UNCHANGED childVars

\* lines 50-52
ExceptHandler ==
    /\ pc = "except"
    /\ console' = Append(console, ErrorLine(exc))
    /\ result' = <<FALSE>>
    /\ pc' = "exit"
    /\ UNCHANGED <<i, written, rawPos, linePos, returncode, programExit,
                   exc, trace>>
    /\ UNCHANGED childVars

\* lines 55-56
MainExit ==
    /\ pc = "exit"
    /\ programExit' = <<IF result[1] THEN 0 ELSE 1>>
    /\ pc' = "done"
    /\ UNCHANGED <<console, i, written, rawPos, linePos, returncode, result,
                   exc, trace>>
    /\ UNCHANGED childVars

----------------------------------------------------------------------------
(* The deploy tool *)

ChildEmit ==
    /\ childStatus = "running"
    /\ stdoutOpen
    /\ pc # "done"
    /\ Len(emitted) < MaxWrites
    /\ \E s \in SampleIds : emitted' = Append(emitted, s)
    /\ UNCHANGED <<childStatus, childCode, stdinOpen, stdoutOpen, stdinRead>>
    /\ UNCHANGED parentVars

ChildReadStdin ==
    /\ childStatus = "running"
    /\ stdinOpen
    /\ stdinRead < Len(written)
    /\ stdinRead' = stdinRead + 1
    /\ UNCHANGED <<childStatus, childCode, stdinOpen, stdoutOpen, emitted>>
    /\ UNCHANGED parentVars

ChildCloseStdin ==
    /\ childStatus = "running"
    /\ stdinOpen
    /\ stdinOpen' = FALSE
    /\ UNCHANGED <<childStatus, childCode, stdoutOpen, stdinRead, emitted>>
    /\ UNCHANGED parentVars

ChildCloseStdout ==
    /\ childStatus = "running"
    /\ stdoutOpen
    /\ stdoutOpen' = FALSE
    /\ UNCHANGED <<childStatus, childCode, stdinOpen, stdinRead, emitted>>
    /\ UNCHANGED parentVars

ChildExit ==
    /\ childStatus = "running"
    /\ \E c \in ExitCodes : childCode' = c
    /\ childStatus' = "exited"
    /\ stdinOpen' = FALSE
    /\ stdoutOpen' = FALSE
    /\ UNCHANGED <<stdinRead, emitted>>
    /\ UNCHANGED parentVars

----------------------------------------------------------------------------

Next ==
    \/ PrintBanner
    \/ ChangeDir
    \/ SpawnProcess
    \/ WriteInput
    \/ FlushInput
    \/ ReadChunk
    \/ YieldLine
    \/ EndOfOutput
    \/ WaitChild
    \/ ReturnResult
    \/ ExceptHandler
    \/ MainExit
    \/ ChildEmit
    \/ ChildReadStdin
    \/ ChildCloseStdin
    \/ ChildCloseStdout
    \/ ChildExit

Spec == Init /\ [][Next]_vars

TypeOK ==
    /\ pc \in {"print", "chdir", "popen", "write", "flush", "read", "wait",
               "return", "except", "exit", "done", "crashed"}
    /\ i \in 1..Len(inputs)
    /\ Len(written) <= Len(inputs)
    /\ 0 <= linePos /\ linePos <= rawPos /\ rawPos <= Len(Output)
    /\ Len(returncode) <= 1 /\ Len(result) <= 1 /\ Len(programExit) <= 1
    /\ childStatus \in {"none", "running", "exited"}
    /\ stdinRead \in 0..Len(written)
    /\ Len(emitted) <= MaxWrites

----------------------------------------------------------------------------
(* Vocabulary of the properties *)

Spawned == childStatus # "none"
Returned == result # <<>>
ChildExitedWith(c) == childStatus = "exited" /\ childCode = c

\* the exceptions raised inside the try block
GuardedErrors == SpawnErrors \cup {BrokenPipe, DecodeError}

KindIdx(k) == {n \in 1..Len(console) : console[n].kind = k}

\* the echoed lines, in order
RECURSIVE EchoTexts(_)
EchoTexts(c) ==
    IF c = <<>> THEN <<>>
    ELSE IF Head(c).kind = "echo" THEN <<Head(c).text>> \o EchoTexts(Tail(c))
    ELSE EchoTexts(Tail(c))

RECURSIVE Concat(_)
Concat(ts) == IF ts = <<>> THEN <<>> ELSE Head(ts) \o Concat(Tail(ts))

\* the child's output with CR LF and CR replaced by LF
RECURSIVE Universal(_)
Universal(s) ==
    IF s = <<>> THEN <<>>
    ELSE IF Head(s) = CR
         THEN IF Len(s) >= 2 /\ s[2] = LF
              THEN <<LF>> \o Universal(SubSeq(s, 3, Len(s)))
              ELSE <<LF>> \o Universal(Tail(s))
         ELSE <<Head(s)>> \o Universal(Tail(s))

\* two characters equal up to the case of a letter
EqCI(a, b) ==
    \/ a = b
    \/ \E k \in 1..Len(UpperAlpha) :
          \/ UpperAlpha[k] = a /\ LowerAlpha[k] = b
          \/ UpperAlpha[k] = b /\ LowerAlpha[k] = a

\* needle occurs in s, compared case-insensitively
HasCI(needle, s) ==
    \E p \in 0..(Len(s) - Len(needle)) :
        \A k \in 1..Len(needle) : EqCI(s[p + k], needle[k])

IsUrlLine(line) == HasCI(UrlMarker, line) /\ HasCI(Provider, line)

\* t is line without its leading and trailing whitespace
IsStripOf(t, line) ==
    \E a \in 0..Len(line) :
        /\ a + Len(t) <= Len(line)
        /\ SubSeq(line, a + 1, a + Len(t)) = t
        /\ \A k \in 1..a : line[k] \in Whitespace
        /\ \A k \in (a + Len(t) + 1)..Len(line) : line[k] \in Whitespace
        /\ t # <<>> => (t[1] \notin Whitespace /\ t[Len(t)] \notin Whitespace)
        /\ t = <<>> => a = 0

TraceIdx(e) == {n \in 1..Len(trace) : trace[n] = e}

Rank(e) ==
    CASE e = "spawn" -> 1
      [] e \in {"write", "flush"} -> 2
      [] e \in {"read", "line"} -> 3
      [] e = "eof" -> 4
      [] e = "wait" -> 5
      [] e = "returncode" -> 6

----------------------------------------------------------------------------
(* C1 *)

\* C1 as stated: whenever the child has exited with code 0, the value
\* returned by deploy_to_netlify is True and the exit status is 0, whatever
\* the child did before it exited.
C1_ExitZeroAlwaysSuccess ==
    (Returned /\ ChildExitedWith(0)) =>
        /\ result = <<TRUE>>
        /\ programExit # <<>> => programExit = <<0>>

\* C1 amended: when the child has exited with code 0 and no exception was
\* raised while spawning, writing the inputs or reading the output, the
\* value returned is True and the exit status is 0.
C1_ExitZeroSuccess ==
    (Returned /\ exc = "" /\ ChildExitedWith(0)) =>
        /\ result = <<TRUE>>
        /\ programExit # <<>> => programExit = <<0>>

C1_Witness ==
    /\ pc = "done"
    /\ exc = ""
    /\ ChildExitedWith(0)
    /\ programExit = <<0>>
    /\ emitted # <<>>
    /\ stdinRead = 0

----------------------------------------------------------------------------
(* C2 *)

\* C2: True is returned only if the child was spawned and has terminated
\* with exit code 0; for every non-zero exit code of the child the value
\* returned is False and the exit status is 1.
C2_SuccessOnlyOnExitZero ==
    /\ result = <<TRUE>> =>
          /\ Spawned
          /\ ChildExitedWith(0)
          /\ returncode = <<0>>
    /\ (Returned /\ childStatus = "exited" /\ childCode # 0) =>
          /\ result = <<FALSE>>
          /\ programExit # <<>> => programExit = <<1>>

C2_Witness ==
    /\ pc = "done"
    /\ exc = ""
    /\ ChildExitedWith(MaxExitCode)
    /\ returncode = <<MaxExitCode>>
    /\ result = <<FALSE>>
    /\ programExit = <<1>>

----------------------------------------------------------------------------
(* C3 *)

\* C3: an exception raised by the spawn or by the I/O that follows is
\* handled inside deploy_to_netlify: the script goes through the handler,
\* the last line printed is the Error line of that exception, False is
\* returned and the exit status is 1; after a spawn failure there is no
\* child, nothing was written and nothing was read.
C3_ExceptionsCaught ==
    /\ exc \in GuardedErrors =>
          /\ pc \in {"except", "exit", "done"}
          /\ pc \in {"exit", "done"} =>
                /\ console[Len(console)] = ErrorLine(exc)
                /\ result = <<FALSE>>
          /\ pc = "done" => programExit = <<1>>
    /\ exc \in SpawnErrors =>
          /\ ~Spawned
          /\ written = <<>>
          /\ rawPos = 0
          /\ KindIdx("echo") = {}
    /\ pc = "except" => exc \in GuardedErrors

C3_Witness ==
    /\ pc = "done"
    /\ exc \in SpawnErrors
    /\ console[Len(console)].kind = "error"
    /\ programExit = <<1>>

----------------------------------------------------------------------------
(* C4 *)

\* C4 as stated: in every run in which the child is spawned, exactly two
\* blank lines have been written to its stdin when the function returns.
C4_AlwaysTwoInputs ==
    (Spawned /\ Returned) => written = << <<LF>>, <<LF>> >>

\* C4 amended: at most two inputs are written, each a lone newline, each
\* followed by its flush; exactly two are written in every run in which no
\* write raises (so before any output is read), and fewer than two only
\* when a write raised BrokenPipeError.
C4_TwoInputsUnlessWriteFails ==
    /\ Len(written) <= 2
    /\ \A k \in 1..Len(written) : written[k] = <<LF>>
    /\ pc \in {"read", "wait", "return"} => Len(written) = 2
    /\ rawPos > 0 => Len(written) = 2
    /\ (Spawned /\ Returned /\ exc # BrokenPipe) => Len(written) = 2
    /\ exc = BrokenPipe => Len(written) < 2
    /\ pc \notin {"flush"} => Cardinality(TraceIdx("flush")) = Len(written)

C4_Witness ==
    /\ pc = "done"
    /\ exc = ""
    /\ written = << <<LF>>, <<LF>> >>
    /\ Cardinality(KindIdx("echo")) >= 2

----------------------------------------------------------------------------
(* C5 *)

\* C5: every echoed line that contains "https://" and "netlify", compared
\* case-insensitively, is followed at once by one confirmation that quotes
\* the stripped line; an echoed line that lacks one of them is not; so there
\* are as many confirmations as matching lines.
C5_ConfirmationIffMatch ==
    /\ \A n \in KindIdx("echo") :
          IsUrlLine(console[n].text) <=>
              (n < Len(console) /\ console[n + 1].kind = "found")
    /\ \A n \in KindIdx("found") :
          /\ n > 1
          /\ console[n - 1].kind = "echo"
          /\ \E t \in {SubSeq(console[n].text, 3, Len(console[n].text) - 1)} :
                /\ IsStripOf(t, console[n - 1].text)
                /\ console[n].text =
                       <<LF, "(U+2705) Found URL: ">> \o t \o <<LF>>
    /\ Cardinality(KindIdx("found")) =
          Cardinality({n \in KindIdx("echo") : IsUrlLine(console[n].text)})

C5_Witness ==
    /\ \E n \in KindIdx("found") :
          /\ console[n - 1].text # Lower(console[n - 1].text)
          /\ Len(console[n].text) < Len(console[n - 1].text)
    /\ \E n \in KindIdx("echo") :
          /\ HasCI(Provider, console[n].text)
          /\ ~HasCI(UrlMarker, console[n].text)
          /\ n = Len(console)

----------------------------------------------------------------------------
(* C6 *)

\* C6: whenever deploy_to_netlify has returned after a successful spawn, the
\* child has terminated and has been waited on.
C6_ChildReapedOnReturn ==
    (Spawned /\ Returned) => (childStatus = "exited" /\ returncode # <<>>)

----------------------------------------------------------------------------
(* C7 *)

C7_Order ==
    /\ \A a, b \in 1..Len(trace) : a < b => Rank(trace[a]) <= Rank(trace[b])
    /\ Cardinality(TraceIdx("spawn")) <= 1
    /\ Spawned <=> trace # <<>>
    /\ trace # <<>> => trace[1] = "spawn"
    /\ written # <<>> => Spawned
    /\ rawPos > 0 => Spawned
    /\ \A n \in TraceIdx("read") \cup TraceIdx("line") :
          Cardinality({m \in TraceIdx("write") : m < n}) = Len(inputs)
    /\ \A n \in TraceIdx("wait") : \E m \in TraceIdx("eof") : m < n
    /\ \A n \in TraceIdx("returncode") : \E m \in TraceIdx("wait") : m < n
    /\ returncode # <<>> => AtEOF /\ Decoded = <<>>

\* C7: a run is one pass spawn, write both inputs, stream the output, wait,
\* map the exit code: the operations on the child occur in that order, the
\* child is spawned at most once and before anything is written or read,
\* both inputs are written before output is read, the wait is made only
\* once the output is at end of file and the exit code is read only after
\* the wait.
C7_LinearOrder ==
    /\ []C7_Order
    /\ [][(returncode = <<>> /\ returncode' # <<>>) =>
             (AtEOF /\ Decoded = <<>> /\ childStatus = "exited")]_vars
    /\ [][childStatus = "none" \/ childStatus' # "none"]_vars

C7_Witness ==
    /\ pc = "done"
    /\ trace # <<>>
    /\ trace[Len(trace)] = "returncode"
    /\ Cardinality(TraceIdx("line")) >= 2
    /\ Cardinality(TraceIdx("read")) >= 2

----------------------------------------------------------------------------
(* C8 *)

\* C8: a loop iteration changes nothing but the console, and on everything
\* else it acts the same whether or not the line matches: the loop goes on,
\* the inputs written, the return code, the returned value, the exit
\* status, the pending exception and the child are untouched, the line is
\* consumed and echoed, and the only other print is the confirmation.
C8_DetectionOnlyPrints ==
    [][(pc = "read" /\ console' # console) =>
         LET end == LineEnd(Decoded, AtEOF)
             new == SubSeq(console', Len(console) + 1, Len(console'))
         IN /\ pc' = "read"
            /\ UNCHANGED <<i, written, rawPos, returncode, result,
                           programExit, exc>>
            /\ UNCHANGED childVars
            /\ end > 0
            /\ linePos' = linePos + end
            /\ SubSeq(console', 1, Len(console)) = console
            /\ EchoTexts(new) = <<LineText(Decoded, end)>>
            /\ \A n \in 2..Len(new) : new[n].kind = "found"
      ]_vars

C8_Witness ==
    /\ pc = "read"
    /\ console # <<>>
    /\ console[Len(console)].kind = "found"
    /\ Pending # <<>>

----------------------------------------------------------------------------
(* C9 *)

\* C9 as stated: when the function returns by the exit-code mapping, the
\* echoed lines are the child's output, unmodified.
C9_OutputUnmodified ==
    (Returned /\ exc = "") => Concat(EchoTexts(console)) = Output

\* C9 amended: when the function returns by the exit-code mapping, the
\* echoed lines are, in order and each once, the lines of the child's output
\* with the line ends CR LF and CR replaced by LF; the only other prints
\* are the banner before them and the confirmations.
C9_OutputRelayed ==
    (Returned /\ exc = "") =>
        /\ Concat(EchoTexts(console)) = Universal(Output)
        /\ \A n \in KindIdx("echo") :
              LET t == console[n].text IN
              /\ t # <<>>
              /\ \A k \in 1..(Len(t) - 1) : t[k] \notin {CR, LF}
              /\ t[Len(t)] # CR
              /\ t[Len(t)] # LF => KindIdx("echo") \subseteq 1..n
        /\ \A n \in 1..Len(console) :
              /\ console[n].kind \in {"banner", "echo", "found"}
              /\ console[n].kind = "banner" <=> n = 1

C9_Witness ==
    /\ pc = "done"
    /\ exc = ""
    /\ Cardinality(KindIdx("echo")) >= 2
    /\ \E k \in 1..Len(Output) : Output[k] = CR
    /\ Concat(EchoTexts(console)) # Output

----------------------------------------------------------------------------
(* C10 *)

\* C10: when os.chdir fails, the failure is not handled: the script ends
\* there, with no child spawned, no Error line printed, no value returned,
\* and the handler and the exit-code mapping are not run.
C10_ChdirFailureEscapes ==
    /\ exc = ChdirError <=> pc = "crashed"
    /\ pc = "crashed" =>
          /\ ~Spawned
          /\ trace = <<>>
          /\ written = <<>>
          /\ KindIdx("error") = {}
          /\ console = <<Banner>>
          /\ result = <<>>
          /\ returncode = <<>>
          /\ ~ENABLED Next

C10_Witness ==
    /\ pc = "crashed"
    /\ exc = ChdirError
    /\ programExit = <<1>>

====
